---- MODULE Spec2Model ----
(***************************************************************************)
(* Gateway reliability primitives: the circuit breaker                     *)
(* (src/gateway/circuit-breaker.ts) and the sliding-window rate limiter    *)
(* (src/gateway/rate-limiter.ts).                                          *)
(*                                                                         *)
(* SpecCB drives one CircuitBreaker with concurrent guarded calls, a       *)
(* non-decreasing millisecond clock and reset().  SpecRL drives one        *)
(* SlidingWindowRateLimiter over a small set of keys.                      *)
(*                                                                         *)
(* SpecNR drives the NodeRegistry (register, unregister, invoke, replies   *)
(* and timeouts over two connections) and SpecNRFair adds timers that      *)
(* fire.  SpecRC drives one RpcClient through its connection states with   *)
(* requests, responses and a wall clock.  The sources of the registry and  *)
(* of the client are not in the tree: both follow the design document,     *)
(* and their tests (gateway/node-registry.test.ts, the GatewayClient       *)
(* metrics tests) where these show the behaviour.                          *)
(***************************************************************************)
EXTENDS Integers, Sequences, FiniteSets, TLC

(* ------------------------------ bounds --------------------------------- *)
MaxTime == 3            \* the clock runs over 0..MaxTime
MaxThreshold == 2       \* failureThreshold is drawn from 1..MaxThreshold
MaxResetTimeout == 2    \* resetTimeoutMs is drawn from 1..MaxResetTimeout
MaxHalfOpen == 2        \* halfOpenMaxAttempts is drawn from 1..MaxHalfOpen
MaxCalls == 5           \* guarded operations started over a run
MaxInflight == 3        \* guarded operations in flight at once
MaxClock == 2           \* the limiter's clock runs over 0..MaxClock
MaxRequests == 2        \* maxRequests is drawn from -1..MaxRequests
MaxWindow == 2          \* windowMs is drawn from 1..MaxWindow
PendingLimit == 2       \* the registry's pending-invoke bound, scaled down
                        \* from 1000
MaxInvokes == 3         \* invoke calls made over a run
MaxClientCalls == 2     \* request() calls made over a run
MaxAttempts == 2        \* transport losses over a run
MaxWall == 2            \* the client's wall clock runs over 0..MaxWall

(* ------------------------------ values --------------------------------- *)
CLOSED == "CLOSED"
OPEN == "OPEN"
HALF_OPEN == "HALF_OPEN"
CircuitState == {CLOSED, OPEN, HALF_OPEN}

\* null of `number | null`; every Date.now() value is >= 0
Null == -1

Max(a, b) == IF a >= b THEN a ELSE b

VARIABLES
    cb,          \* the CircuitBreaker object: its private fields, and
                 \* `notified`, the onStateChange(from, to) calls made by
                 \* the handler that ran last
    config,      \* CircuitBreakerConfig (without the observer)
    now,         \* Date.now()
    inflight,    \* guarded operations awaiting completion, by admission kind
    lastTo,      \* `to` of the observer's latest call (CLOSED before any)
    done,        \* guarded operations completed: [ok |-> n, err |-> n]
    streak,      \* failures completed in a row since the last success/reset
    ev,          \* what the last handler did, as seen by its caller
    healed,      \* whether the guarded target has recovered: from then on
                 \* every guarded operation succeeds
    buckets,     \* SlidingWindowRateLimiter.buckets: a Map from the keys
                 \* that have an entry to the entry's timestamps
    limits,      \* [maxRequests, windowMs] of the limiter
    clock,       \* Date.now() of the limiter's run
    granted,     \* times at which tryAcquire returned true, per key,
                 \* since the key's last reset
    rl,          \* what the last limiter operation did and returned
    registry,    \* the NodeRegistry: its connections, each connection's
                 \* pending invokes and the armed timeout timers
    wire,        \* invoke request frames sent whose reply has not arrived
    settled,     \* per invoke call, how its promise was settled, in order
    nextId,      \* the number of the next invoke call
    nr,          \* what the last registry handler did
    client,      \* the RpcClient: its state, reconnect counter and timer,
                 \* and its pending calls
    flight,      \* request frames on the current transport, unanswered
    calls,       \* per request() call: its method, the response received
                 \* and how the caller's promise was settled
    log,         \* per request() call: the metrics events and the frame
                 \* transmission, in the order they happened
    wall,        \* the client's clock (Date.now()), in milliseconds
    nextCall,    \* the number of the next request() call
    reconnects,  \* the reconnect events since the last accepted handshake
    transport    \* whether a transport exists whose close event is still
                 \* to be delivered

cbVars == <<cb, config, now, inflight, lastTo, done, streak, ev, healed>>
rlVars == <<buckets, limits, clock, granted, rl>>
nrVars == <<registry, wire, settled, nextId, nr>>
rcVars == <<client, flight, calls, log, wall, nextCall, reconnects, transport>>
vars == <<cbVars, rlVars, nrVars, rcVars>>

(* ===================== circuit-breaker.ts ============================== *)

\* private transition(to): set the state, tell the observer (from, to)
transition(b, to) ==
    [b EXCEPT !.state = to, !.notified = Append(@, <<b.state, to>>)]

\* Date.now() - (this.openedAtMs ?? Date.now())
Elapsed(b, t) == t - (IF b.openedAtMs = Null THEN t ELSE b.openedAtMs)

\* execute(fn) up to `await fn()`: the result names the breaker afterwards and
\* whether fn was invoked or a CircuitOpenError(errState, retryAfterMs) thrown
Rejected(b, errState, retryAfterMs) ==
    [b |-> b, invoked |-> FALSE, errState |-> errState,
     retryAfterMs |-> retryAfterMs]

Invoked(b) ==
    [b |-> b, invoked |-> TRUE, errState |-> "", retryAfterMs |-> 0]

\* a probe gate comparing with > instead of >=
probeGate_oneTooMany(b, cfg, t) ==
    IF b.state = HALF_OPEN
    THEN IF b.halfOpenInflight > cfg.halfOpenMaxAttempts
         THEN Rejected(b, OPEN, Max(0, cfg.resetTimeoutMs - Elapsed(b, t)))
         ELSE Invoked([b EXCEPT !.halfOpenInflight = @ + 1])
    ELSE Invoked(b)

\* lines 90-101: the HALF_OPEN probe gate
probeGate(b, cfg, t) ==
    IF b.state = HALF_OPEN
    THEN IF b.halfOpenInflight >= cfg.halfOpenMaxAttempts
         THEN Rejected(b, OPEN, Max(0, cfg.resetTimeoutMs - Elapsed(b, t)))
         ELSE Invoked([b EXCEPT !.halfOpenInflight = @ + 1])
    ELSE Invoked(b)

\* execute() reporting the time elapsed instead of the time left
execute_retryElapsed(b, cfg, t) ==
    IF b.state = OPEN
    THEN IF Elapsed(b, t) >= cfg.resetTimeoutMs
         THEN probeGate(transition(b, HALF_OPEN), cfg, t)
         ELSE Rejected(b, OPEN, Elapsed(b, t))
    ELSE probeGate(b, cfg, t)

execute(b, cfg, t) ==
    IF b.state = OPEN
    THEN IF Elapsed(b, t) >= cfg.resetTimeoutMs
         THEN probeGate(transition(b, HALF_OPEN), cfg, t)
         ELSE Rejected(b, OPEN, cfg.resetTimeoutMs - Elapsed(b, t))
    ELSE probeGate(b, cfg, t)

\* reset() that leaves the consecutive-failure count alone
reset_keepsConsecutive(b) ==
    [b EXCEPT !.state = CLOSED, !.halfOpenInflight = 0, !.openedAtMs = Null]

\* reset() that also zeroes the cumulative totals
reset_clearsTotals(b) ==
    [b EXCEPT !.state = CLOSED, !.consecutiveFailures = 0,
              !.halfOpenInflight = 0, !.openedAtMs = Null,
              !.failures = 0, !.successes = 0]

\* reset(): assigns the fields directly, without transition()
reset(b) ==
    [b EXCEPT !.state = CLOSED, !.consecutiveFailures = 0,
              !.halfOpenInflight = 0, !.openedAtMs = Null]

\* onSuccess() whose probe branch forgets to clear the failure streak
onSuccess_keepsConsecutive(b) ==
    LET b1 == [b EXCEPT !.successes = @ + 1] IN
    IF b1.state = HALF_OPEN
    THEN [transition([b1 EXCEPT !.halfOpenInflight = @ - 1], CLOSED)
            EXCEPT !.halfOpenInflight = 0]
    ELSE [b1 EXCEPT !.consecutiveFailures = 0]

\* onSuccess() whose probe branch leaves the breaker HALF_OPEN
onSuccess_staysHalfOpen(b) ==
    LET b1 == [b EXCEPT !.successes = @ + 1] IN
    IF b1.state = HALF_OPEN
    THEN [b1 EXCEPT !.halfOpenInflight = @ - 1, !.consecutiveFailures = 0]
    ELSE [b1 EXCEPT !.consecutiveFailures = 0]

onSuccess(b) ==
    LET b1 == [b EXCEPT !.successes = @ + 1] IN
    IF b1.state = HALF_OPEN
    THEN [transition([b1 EXCEPT !.halfOpenInflight = @ - 1], CLOSED)
            EXCEPT !.consecutiveFailures = 0, !.halfOpenInflight = 0]
    ELSE [b1 EXCEPT !.consecutiveFailures = 0]

\* onFailure() comparing with > instead of >=
onFailure_strictThreshold(b, cfg, t) ==
    LET b1 == [b EXCEPT !.failures = @ + 1, !.consecutiveFailures = @ + 1,
                        !.lastFailureMs = t] IN
    IF b1.state = HALF_OPEN
    THEN [transition([b1 EXCEPT !.halfOpenInflight = @ - 1], OPEN)
            EXCEPT !.openedAtMs = t]
    ELSE IF b1.state = CLOSED
            /\ b1.consecutiveFailures > cfg.failureThreshold
         THEN [transition(b1, OPEN) EXCEPT !.openedAtMs = t]
         ELSE b1

\* onFailure() that forgets to give the failed probe's slot back
onFailure_noDecrement(b, cfg, t) ==
    LET b1 == [b EXCEPT !.failures = @ + 1, !.consecutiveFailures = @ + 1,
                        !.lastFailureMs = t] IN
    IF b1.state = HALF_OPEN
    THEN [transition(b1, OPEN) EXCEPT !.openedAtMs = t]
    ELSE IF b1.state = CLOSED
            /\ b1.consecutiveFailures >= cfg.failureThreshold
         THEN [transition(b1, OPEN) EXCEPT !.openedAtMs = t]
         ELSE b1

onFailure(b, cfg, t) ==
    LET b1 == [b EXCEPT !.failures = @ + 1, !.consecutiveFailures = @ + 1,
                        !.lastFailureMs = t] IN
    IF b1.state = HALF_OPEN
    THEN [transition([b1 EXCEPT !.halfOpenInflight = @ - 1], OPEN)
            EXCEPT !.openedAtMs = t]
    ELSE IF b1.state = CLOSED
            /\ b1.consecutiveFailures >= cfg.failureThreshold
         THEN [transition(b1, OPEN) EXCEPT !.openedAtMs = t]
         ELSE b1

getState(b) == b.state

getStats(b) ==
    [state |-> b.state, failures |-> b.failures, successes |-> b.successes,
     lastFailureMs |-> b.lastFailureMs,
     consecutiveFailures |-> b.consecutiveFailures]

\* field initialisers of the class, lines 63-69
NewBreaker ==
    [state |-> CLOSED, failures |-> 0, successes |-> 0,
     consecutiveFailures |-> 0, lastFailureMs |-> Null, openedAtMs |-> Null,
     halfOpenInflight |-> 0, notified |-> <<>>]

\* a handler starts with no observer calls of its own yet
Entering(b) == [b EXCEPT !.notified = <<>>]

(* --------------------- the breaker's environment ----------------------- *)

\* Guarded operations in flight, by how they were admitted: while CLOSED, as a
\* probe of the HALF_OPEN phase the breaker is in, or as a probe of a
\* HALF_OPEN phase that has ended since.
Kinds == {"closed", "probe", "stale"}

InflightTotal == inflight["closed"] + inflight["probe"] + inflight["stale"]

\* when the breaker is no longer HALF_OPEN its probes belong to a past phase
Retire(inf, stateAfter) ==
    IF stateAfter = HALF_OPEN THEN inf
    ELSE [inf EXCEPT !["stale"] = @ + inf["probe"], !["probe"] = 0]

\* the observer's latest `to`
LastNotified(b, prev) ==
    IF b.notified = <<>> THEN prev ELSE b.notified[Len(b.notified)][2]

NoEvent ==
    [op |-> "init", invoked |-> FALSE, errState |-> "", retryAfterMs |-> 0,
     ok |-> FALSE, kind |-> "", from |-> CLOSED]

\* time passes
Tick ==
    /\ now < MaxTime
    /\ now' = now + 1
    /\ cb' = Entering(cb)
    /\ ev' = [NoEvent EXCEPT !.op = "tick", !.from = cb.state]
    /\ UNCHANGED <<config, healed, inflight, lastTo, done, streak, rlVars, nrVars, rcVars>>

\* a caller runs execute(fn); fn, when invoked, stays in flight
Execute ==
    LET r == execute(Entering(cb), config, now)
        kind == IF r.b.state = HALF_OPEN THEN "probe" ELSE "closed"
    IN
    /\ r.invoked => /\ done.ok + done.err + InflightTotal < MaxCalls
                    /\ InflightTotal < MaxInflight
    /\ cb' = r.b
    /\ inflight' = IF r.invoked THEN [inflight EXCEPT ![kind] = @ + 1]
                   ELSE inflight
    /\ lastTo' = LastNotified(r.b, lastTo)
    /\ ev' = [NoEvent EXCEPT !.op = "execute", !.invoked = r.invoked,
                             !.errState = r.errState,
                             !.retryAfterMs = r.retryAfterMs,
                             !.kind = IF r.invoked THEN kind ELSE "",
                             !.from = cb.state]
    /\ UNCHANGED <<config, healed, now, done, streak, rlVars, nrVars, rcVars>>

\* fn() of an in-flight call resolves: the continuation runs onSuccess()
CompleteSuccess(k) ==
    LET b == onSuccess(Entering(cb)) IN
    /\ inflight[k] > 0
    /\ cb' = b
    /\ inflight' = Retire([inflight EXCEPT ![k] = @ - 1], b.state)
    /\ lastTo' = LastNotified(b, lastTo)
    /\ done' = [done EXCEPT !.ok = @ + 1]
    /\ streak' = 0
    /\ ev' = [NoEvent EXCEPT !.op = "complete", !.ok = TRUE, !.kind = k,
                             !.from = cb.state]
    /\ UNCHANGED <<config, healed, now, rlVars, nrVars, rcVars>>

\* fn() of an in-flight call rejects: the catch block runs onFailure()
CompleteFailure(k) ==
    LET b == onFailure(Entering(cb), config, now) IN
    /\ inflight[k] > 0
    /\ cb' = b
    /\ inflight' = Retire([inflight EXCEPT ![k] = @ - 1], b.state)
    /\ lastTo' = LastNotified(b, lastTo)
    /\ done' = [done EXCEPT !.err = @ + 1]
    /\ streak' = streak + 1
    /\ ev' = [NoEvent EXCEPT !.op = "complete", !.ok = FALSE, !.kind = k,
                             !.from = cb.state]
    /\ UNCHANGED <<config, healed, now, rlVars, nrVars, rcVars>>

\* an administrator calls reset()
Reset ==
    LET b == reset(Entering(cb)) IN
    /\ cb' = b
    /\ inflight' = Retire(inflight, b.state)
    /\ lastTo' = LastNotified(b, lastTo)
    /\ streak' = 0
    /\ ev' = [NoEvent EXCEPT !.op = "reset", !.from = cb.state]
    /\ UNCHANGED <<config, healed, now, done, rlVars, nrVars, rcVars>>


CBNext ==
    \/ Tick
    \/ Execute
    \/ \E k \in Kinds : CompleteSuccess(k)
    \/ \E k \in Kinds : CompleteFailure(k)
    \/ Reset

(* ------------------ the breaker over unbounded time -------------------- *)

\* For recovery the breaker runs without an end of time and without a limit
\* on the number of calls. Time is kept relative: the clock reads MaxTime
\* throughout and the passing of a millisecond makes every timestamp one
\* older; a timestamp MaxTime old is at least resetTimeoutMs old and stays
\* so. The fields that only getStats() reports are not tracked, and
\* consecutiveFailures, which is only ever compared with failureThreshold,
\* stops counting there.
Min(a, b) == IF a < b THEN a ELSE b

Older(x) == IF x = Null THEN Null ELSE Max(0, x - 1)

Abstract(b, cfg) ==
    [b EXCEPT !.failures = 0, !.successes = 0, !.lastFailureMs = Null,
              !.consecutiveFailures = Min(@, cfg.failureThreshold),
              !.notified = <<>>]

\* a millisecond passes
LiveTick ==
    /\ cb' = [cb EXCEPT !.openedAtMs = Older(@)]
    /\ UNCHANGED <<config, now, inflight, lastTo, done, streak, ev, healed,
                   rlVars, nrVars, rcVars>>

\* a caller runs execute(fn); fn, when invoked, stays in flight
LiveExecute ==
    LET r == execute(cb, config, now)
        kind == IF r.b.state = HALF_OPEN THEN "probe" ELSE "closed"
    IN
    /\ r.invoked => InflightTotal < MaxInflight
    /\ cb' = Abstract(r.b, config)
    /\ inflight' = IF r.invoked THEN [inflight EXCEPT ![kind] = @ + 1]
                   ELSE inflight
    /\ UNCHANGED <<config, now, lastTo, done, streak, ev, healed,
                   rlVars, nrVars, rcVars>>

\* fn() of an in-flight call resolves
LiveSuccess(k) ==
    LET b == Abstract(onSuccess(cb), config) IN
    /\ inflight[k] > 0
    /\ cb' = b
    /\ inflight' = Retire([inflight EXCEPT ![k] = @ - 1], b.state)
    /\ UNCHANGED <<config, now, lastTo, done, streak, ev, healed,
                   rlVars, nrVars, rcVars>>

\* fn() of an in-flight call rejects, which a recovered target never does
LiveFailure(k) ==
    LET b == Abstract(onFailure(cb, config, now), config) IN
    /\ ~healed
    /\ inflight[k] > 0
    /\ cb' = b
    /\ inflight' = Retire([inflight EXCEPT ![k] = @ - 1], b.state)
    /\ UNCHANGED <<config, now, lastTo, done, streak, ev, healed,
                   rlVars, nrVars, rcVars>>

\* the guarded target recovers
Heal ==
    /\ ~healed
    /\ healed' = TRUE
    /\ UNCHANGED <<cb, config, now, inflight, lastTo, done, streak, ev,
                   rlVars, nrVars, rcVars>>

CBLiveNext ==
    \/ LiveTick
    \/ LiveExecute
    \/ \E k \in Kinds : LiveSuccess(k)
    \/ \E k \in Kinds : LiveFailure(k)
    \/ Heal

(* ======================== rate-limiter.ts ============================== *)

Keys == {"a", "b"}

\* Map.get / Map.set / Map.delete / Map.clear on the buckets map
Has(m, key) == key \in DOMAIN m
Put(m, key, ts) == [k \in DOMAIN m \cup {key} |-> IF k = key THEN ts ELSE m[k]]
Delete(m, key) == [k \in DOMAIN m \ {key} |-> m[k]]
EmptyMap == [k \in {} |-> <<>>]

\* the while loop of prune(): the number of leading timestamps <= cutoff
RECURSIVE Expired(_, _, _)
Expired(ts, cutoff, i) ==
    IF i < Len(ts) /\ ts[i + 1] <= cutoff
    THEN Expired(ts, cutoff, i + 1)
    ELSE i

\* prune() that keeps a timestamp exactly windowMs old
prune_keepsBoundary(ts, t, windowMs) ==
    SelectSeq(ts, LAMBDA x : x >= t - windowMs)

\* prune() whose splice leaves the last expired timestamp in place
prune_keepsOneExpired(ts, t, windowMs) ==
    LET i == Expired(ts, t - windowMs, 0) IN
    IF i > 0 THEN SubSeq(ts, i, Len(ts)) ELSE ts

\* private prune(entry, now): splice(0, i)
prune(ts, t, windowMs) ==
    LET i == Expired(ts, t - windowMs, 0) IN
    IF i > 0 THEN SubSeq(ts, i + 1, Len(ts)) ELSE ts

\* private getOrCreateEntry(key)
getOrCreateEntry(m, key) == IF Has(m, key) THEN m ELSE Put(m, key, <<>>)

\* tryAcquire() that checks the limit without pruning first
tryAcquire_noPrune(m, key, t, lim) ==
    IF lim.maxRequests <= 0
    THEN [buckets |-> m, result |-> FALSE]
    ELSE LET m1 == getOrCreateEntry(m, key)
             ts == m1[key]
         IN IF Len(ts) >= lim.maxRequests
            THEN [buckets |-> Put(m1, key, ts), result |-> FALSE]
            ELSE [buckets |-> Put(m1, key, Append(ts, t)), result |-> TRUE]

\* tryAcquire() comparing with > instead of >=
tryAcquire_oneTooMany(m, key, t, lim) ==
    IF lim.maxRequests <= 0
    THEN [buckets |-> m, result |-> FALSE]
    ELSE LET m1 == getOrCreateEntry(m, key)
             ts == prune(m1[key], t, lim.windowMs)
         IN IF Len(ts) > lim.maxRequests
            THEN [buckets |-> Put(m1, key, ts), result |-> FALSE]
            ELSE [buckets |-> Put(m1, key, Append(ts, t)), result |-> TRUE]

\* tryAcquire(key): the map afterwards and the value returned
tryAcquire(m, key, t, lim) ==
    IF lim.maxRequests <= 0
    THEN [buckets |-> m, result |-> FALSE]
    ELSE LET m1 == getOrCreateEntry(m, key)
             ts == prune(m1[key], t, lim.windowMs)
         IN IF Len(ts) >= lim.maxRequests
            THEN [buckets |-> Put(m1, key, ts), result |-> FALSE]
            ELSE [buckets |-> Put(m1, key, Append(ts, t)), result |-> TRUE]

\* getRemaining() without the maxRequests <= 0 guard
getRemaining_noGuard(m, key, t, lim) ==
    IF ~Has(m, key)
    THEN [buckets |-> m, result |-> lim.maxRequests]
    ELSE LET ts == prune(m[key], t, lim.windowMs) IN
         [buckets |-> Put(m, key, ts),
          result |-> Max(0, lim.maxRequests - Len(ts))]

\* getRemaining() that counts the bucket without pruning it
getRemaining_noPrune(m, key, t, lim) ==
    IF lim.maxRequests <= 0
    THEN [buckets |-> m, result |-> 0]
    ELSE IF ~Has(m, key)
         THEN [buckets |-> m, result |-> lim.maxRequests]
         ELSE [buckets |-> m,
               result |-> Max(0, lim.maxRequests - Len(m[key]))]

\* getRemaining() that empties the bucket it looked at
getRemaining_clearsBucket(m, key, t, lim) ==
    IF lim.maxRequests <= 0
    THEN [buckets |-> m, result |-> 0]
    ELSE IF ~Has(m, key)
         THEN [buckets |-> m, result |-> lim.maxRequests]
         ELSE LET ts == prune(m[key], t, lim.windowMs) IN
              [buckets |-> Put(m, key, <<>>),
               result |-> Max(0, lim.maxRequests - Len(ts))]

\* getRemaining(key): the map afterwards and the value returned
getRemaining(m, key, t, lim) ==
    IF lim.maxRequests <= 0
    THEN [buckets |-> m, result |-> 0]
    ELSE IF ~Has(m, key)
         THEN [buckets |-> m, result |-> lim.maxRequests]
         ELSE LET ts == prune(m[key], t, lim.windowMs) IN
              [buckets |-> Put(m, key, ts),
               result |-> Max(0, lim.maxRequests - Len(ts))]

\* reset(key) that clears the whole map
resetKey_clearsAll(m, key) == EmptyMap

\* reset(key) that deletes nothing
resetKey_deletesNothing(m, key) == m

\* reset(key)
resetKey(m, key) == Delete(m, key)

\* resetAll()
resetAll(m) == EmptyMap

\* the bucket's timestamps that reset(key) would discard
Held(m, key) == IF Has(m, key) THEN Len(m[key]) ELSE 0

NoCall ==
    [op |-> "init", key |-> "", granted |-> FALSE, remaining |-> 0,
     dropped |-> 0]

Advance ==
    /\ clock < MaxClock
    /\ clock' = clock + 1
    /\ rl' = [NoCall EXCEPT !.op = "advance"]
    /\ UNCHANGED <<buckets, limits, granted, cbVars, nrVars, rcVars>>

TryAcquire(key) ==
    LET r == tryAcquire(buckets, key, clock, limits) IN
    /\ buckets' = r.buckets
    /\ granted' = IF r.result
                  THEN [granted EXCEPT ![key] = Append(@, clock)]
                  ELSE granted
    /\ rl' = [NoCall EXCEPT !.op = "tryAcquire", !.key = key,
                            !.granted = r.result]
    /\ UNCHANGED <<limits, clock, cbVars, nrVars, rcVars>>

GetRemaining(key) ==
    LET r == getRemaining(buckets, key, clock, limits) IN
    /\ buckets' = r.buckets
    /\ rl' = [NoCall EXCEPT !.op = "getRemaining", !.key = key,
                            !.remaining = r.result]
    /\ UNCHANGED <<limits, clock, granted, cbVars, nrVars, rcVars>>

ResetKey(key) ==
    /\ buckets' = resetKey(buckets, key)
    /\ granted' = [granted EXCEPT ![key] = <<>>]
    /\ rl' = [NoCall EXCEPT !.op = "reset", !.key = key,
                            !.dropped = Held(buckets, key)]
    /\ UNCHANGED <<limits, clock, cbVars, nrVars, rcVars>>

ResetAll ==
    /\ buckets' = resetAll(buckets)
    /\ granted' = [k \in Keys |-> <<>>]
    /\ rl' = [NoCall EXCEPT !.op = "resetAll"]
    /\ UNCHANGED <<limits, clock, cbVars, nrVars, rcVars>>

RLNext ==
    \/ Advance
    \/ \E key \in Keys : TryAcquire(key)
    \/ \E key \in Keys : GetRemaining(key)
    \/ \E key \in Keys : ResetKey(key)
    \/ ResetAll

(* ========================= node-registry =============================== *)

\* connection ids and the node each one belongs to
Conns == {"conn-1", "conn-2"}

NodeOf == [c \in Conns |-> IF c = "conn-1" THEN "node-1" ELSE "node-2"]

Nodes == {NodeOf[c] : c \in Conns}

\* invoke calls are numbered; an admitted call's number is its correlation id
Ids == 1..MaxInvokes

\* a promise settles by resolving with a result value or by rejecting
ResolvedWith(code) == [how |-> "resolved", code |-> code]

RejectedWith(code) == [how |-> "rejected", code |-> code]

\* new NodeRegistry()
NewRegistry ==
    [connections |-> {}, pending |-> [c \in Conns |-> {}], timers |-> {}]

\* what a handler leaves behind: the registry, the settlements it delivered
\* (id -> settlement) and the request frames it sent
Outcome(reg, out, frames) == [reg |-> reg, out |-> out, frames |-> frames]

\* the connection that owns a pending call, if any
Owners(reg, id) == {c \in Conns : id \in reg.pending[c]}

\* register(connection, metadata): admits the connection with an empty
\* pending set, replacing a prior entry of the same id
register(reg, c) ==
    [reg EXCEPT !.connections = @ \cup {c}, !.pending[c] = {}]

\* how unregister() delivers NODE_DISCONNECTED to a pending invoke
Disconnected == RejectedWith("NODE_DISCONNECTED")

\* unregister(connectionId): removes the connection, cancels the timers of
\* its pending calls and settles each of them; a no-op for an unknown id
unregister(reg, c) ==
    IF c \notin reg.connections
    THEN Outcome(reg, {}, {})
    ELSE Outcome([connections |-> reg.connections \ {c},
                  pending |-> [reg.pending EXCEPT ![c] = {}],
                  timers |-> reg.timers \ reg.pending[c]],
                 {<<id, Disconnected>> : id \in reg.pending[c]}, {})

\* invoke() with an off-by-one bound: admits one call too many
invoke_oneTooMany(reg, nodeId, id) ==
    LET cs == {c \in reg.connections : NodeOf[c] = nodeId}
    IN  IF cs = {}
        THEN Outcome(reg, {<<id, ResolvedWith("NODE_NOT_FOUND")>>}, {})
        ELSE LET c == CHOOSE x \in cs : TRUE
             IN  IF Cardinality(reg.pending[c]) > PendingLimit
                 THEN Outcome(reg, {<<id, ResolvedWith("QUEUE_FULL")>>}, {})
                 ELSE Outcome([reg EXCEPT !.pending[c] = @ \cup {id},
                                          !.timers = @ \cup {id}],
                              {}, {id})

\* invoke({nodeId, ...}), steps 1-3: NODE_NOT_FOUND for an unknown node,
\* QUEUE_FULL at the bound, else a PendingCall, an armed timer and a frame
invoke(reg, nodeId, id) ==
    LET cs == {c \in reg.connections : NodeOf[c] = nodeId}
    IN  IF cs = {}
        THEN Outcome(reg, {<<id, ResolvedWith("NODE_NOT_FOUND")>>}, {})
        ELSE LET c == CHOOSE x \in cs : TRUE
             IN  IF Cardinality(reg.pending[c]) >= PendingLimit
                 THEN Outcome(reg, {<<id, ResolvedWith("QUEUE_FULL")>>}, {})
                 ELSE Outcome([reg EXCEPT !.pending[c] = @ \cup {id},
                                          !.timers = @ \cup {id}],
                              {}, {id})

\* the reply handler without the lookup: resolves whatever the frame names
handleReply_noLookup(reg, id, ok) ==
    Outcome([reg EXCEPT !.pending = [c \in Conns |-> @[c] \ {id}],
                        !.timers = @ \ {id}],
            {<<id, ResolvedWith(IF ok THEN "OK" ELSE "NODE_ERROR")>>}, {})

\* invoke step 4, a reply frame: a matching PendingCall is removed, its
\* timer cancelled and the call resolved per the frame; otherwise nothing
handleReply(reg, id, ok) ==
    IF Owners(reg, id) = {}
    THEN Outcome(reg, {}, {})
    ELSE Outcome([reg EXCEPT !.pending = [c \in Conns |-> @[c] \ {id}],
                             !.timers = @ \ {id}],
                 {<<id, ResolvedWith(IF ok THEN "OK" ELSE "NODE_ERROR")>>}, {})

\* a timer that fires and leaves the PendingCall where it is
onTimeout_keepsPending(reg, id) ==
    Outcome([reg EXCEPT !.timers = @ \ {id}], {}, {})

\* invoke step 5, timer expiry: the PendingCall is removed and the call
\* resolved with TIMEOUT
onTimeout(reg, id) ==
    IF Owners(reg, id) = {}
    THEN Outcome([reg EXCEPT !.timers = @ \ {id}], {}, {})
    ELSE Outcome([reg EXCEPT !.pending = [c \in Conns |-> @[c] \ {id}],
                             !.timers = @ \ {id}],
                 {<<id, ResolvedWith("TIMEOUT")>>}, {})

(* --------------------- the registry's environment ---------------------- *)

\* the promises of the calls in out are settled, in order of arrival
Deliver(st, out) ==
    [id \in Ids |->
        LET hit == {o \in out : o[1] = id}
        IN  IF hit = {} THEN st[id]
            ELSE Append(st[id], (CHOOSE o \in hit : TRUE)[2])]

NoHandler == [op |-> "none", conn |-> "-"]

Handled(r, op, c) ==
    /\ registry' = r.reg
    /\ settled' = Deliver(settled, r.out)
    /\ wire' = wire \cup r.frames
    /\ nr' = [op |-> op, conn |-> c]

\* a node completes its handshake (or re-registers with nothing pending)
Register(c) ==
    /\ c \notin registry.connections \/ registry.pending[c] = {}
    /\ registry' = register(registry, c)
    /\ nr' = [op |-> "register", conn |-> c]
    /\ UNCHANGED <<wire, settled, nextId, cbVars, rlVars, rcVars>>

\* a connection closes, or is unregistered a second time
Unregister(c) ==
    /\ Handled(unregister(registry, c), "unregister", c)
    /\ UNCHANGED <<nextId, cbVars, rlVars, rcVars>>

\* a caller invokes a command on a node
Invoke(c) ==
    /\ nextId <= MaxInvokes
    /\ Handled(invoke(registry, NodeOf[c], nextId), "invoke", c)
    /\ nextId' = nextId + 1
    /\ UNCHANGED <<cbVars, rlVars, rcVars>>

\* the reply to a request frame arrives, possibly after the call was
\* resolved another way
Reply(id, ok) ==
    /\ id \in wire
    /\ LET r == handleReply(registry, id, ok)
       IN  /\ registry' = r.reg
           /\ settled' = Deliver(settled, r.out)
    /\ wire' = wire \ {id}
    /\ nr' = [op |-> "reply", conn |-> "-"]
    /\ UNCHANGED <<nextId, cbVars, rlVars, rcVars>>

\* an armed timer fires
Timeout(id) ==
    /\ id \in registry.timers
    /\ Handled(onTimeout(registry, id), "timeout", "-")
    /\ UNCHANGED <<nextId, cbVars, rlVars, rcVars>>

NRNext ==
    \/ \E c \in Conns : Register(c)
    \/ \E c \in Conns : Unregister(c)
    \/ \E c \in Conns : Invoke(c)
    \/ \E id \in Ids, ok \in BOOLEAN : Reply(id, ok)
    \/ \E id \in Ids : Timeout(id)

(* ============================ rpc client =============================== *)

ClientStates ==
    {"DISCONNECTED", "CONNECTING", "HANDSHAKING", "CONNECTED",
     "RECONNECTING", "STOPPED"}

Methods == {"test.method", "failing.method"}

CallIds == 1..MaxClientCalls

\* new GatewayClient({url, metrics})
NewClient ==
    [state |-> "DISCONNECTED", reconnectAttempt |-> 0, timer |-> FALSE,
     pending |-> {}]

\* metrics events, and the transmission of the request frame between them
RequestStart(method) == [type |-> "request-start", method |-> method]

FrameSent(method) == [type |-> "frame-sent", method |-> method]

RequestSuccess(method, durationMs) ==
    [type |-> "request-success", method |-> method, durationMs |-> durationMs]

RequestError(method, durationMs) ==
    [type |-> "request-error", method |-> method, durationMs |-> durationMs]

\* how a request's promise ends
Answer(ok, code) == [ok |-> ok, code |-> code]

\* what a client handler leaves behind: the client, the events emitted for
\* the call it handled and the answers it gave (call id -> answer)
ClientOut(cl, emitted, answers) ==
    [cl |-> cl, emitted |-> emitted, answers |-> answers]

PendingCall(cl, id) == {pc \in cl.pending : pc.id = id}

\* start(): opens the transport
start(cl) ==
    IF cl.state = "DISCONNECTED" THEN [cl EXCEPT !.state = "CONNECTING"] ELSE cl

\* the transport is open: the connect frame is sent
onOpen(cl) == [cl EXCEPT !.state = "HANDSHAKING"]

\* a handshake that leaves the reconnect counter where it was
onHelloOk_keepsCounter(cl) == [cl EXCEPT !.state = "CONNECTED"]

\* the handshake-accepted frame: CONNECTED, reconnect counter back to zero
onHelloOk(cl) == [cl EXCEPT !.state = "CONNECTED", !.reconnectAttempt = 0]

\* the backoff: doubles from BaseDelayMs with each attempt, up to a ceiling
BaseDelayMs == 1

MaxDelayMs == 2

RECURSIVE Pow2(_)
Pow2(n) == IF n <= 0 THEN 1 ELSE 2 * Pow2(n - 1)

backoff(attempt) ==
    LET d == BaseDelayMs * Pow2(attempt - 1)
    IN  IF d > MaxDelayMs THEN MaxDelayMs ELSE d

ReconnectEvent(attempt, delayMs) ==
    [type |-> "reconnect", attempt |-> attempt, delayMs |-> delayMs]

\* transport loss while not stopped: the counter is incremented, the
\* reconnect event is emitted and the reconnect is scheduled
onClose(cl) ==
    IF cl.state = "STOPPED"
    THEN ClientOut(cl, <<>>, {})
    ELSE ClientOut([cl EXCEPT !.state = "RECONNECTING",
                              !.reconnectAttempt = @ + 1,
                              !.timer = TRUE],
                   <<ReconnectEvent(cl.reconnectAttempt + 1,
                                    backoff(cl.reconnectAttempt + 1))>>,
                   {})

\* the reconnect timer fires: the next connection attempt
onReconnectTimer(cl) == [cl EXCEPT !.state = "CONNECTING", !.timer = FALSE]

\* a stop() that leaves the reconnect timer armed
stop_keepsTimer(cl) ==
    ClientOut([cl EXCEPT !.state = "STOPPED", !.pending = {}],
              <<>>,
              {<<pc.id, Answer(FALSE, "CLIENT_STOPPED")>> : pc \in cl.pending})

\* stop(): cancels the reconnect timer, closes the transport and answers
\* every pending call with CLIENT_STOPPED
stop(cl) ==
    ClientOut([cl EXCEPT !.state = "STOPPED", !.timer = FALSE,
                         !.pending = {}],
              <<>>,
              {<<pc.id, Answer(FALSE, "CLIENT_STOPPED")>> : pc \in cl.pending})

\* request(method, params): a PendingCall with its submission time, the
\* request-start event, then the frame
request(cl, id, method, t) ==
    ClientOut([cl EXCEPT !.pending =
                  @ \cup {[id |-> id, method |-> method, startedAt |-> t]}],
              <<RequestStart(method), FrameSent(method)>>,
              {})

\* a response handler that reports every response as a success
handleResponse_alwaysSuccess(cl, id, ok, t) ==
    IF PendingCall(cl, id) = {}
    THEN ClientOut(cl, <<>>, {})
    ELSE LET pc == CHOOSE x \in PendingCall(cl, id) : TRUE
         IN  ClientOut([cl EXCEPT !.pending = @ \ {pc}],
                       <<RequestSuccess(pc.method, t - pc.startedAt)>>,
                       {<<id, Answer(ok, IF ok THEN "OK" ELSE "ERROR")>>})

\* a response frame: the matching PendingCall is resolved and
\* request-success or request-error is emitted per the frame's ok flag,
\* with the time elapsed since submission
handleResponse(cl, id, ok, t) ==
    IF PendingCall(cl, id) = {}
    THEN ClientOut(cl, <<>>, {})
    ELSE LET pc == CHOOSE x \in PendingCall(cl, id) : TRUE
         IN  ClientOut([cl EXCEPT !.pending = @ \ {pc}],
                       IF ok
                       THEN <<RequestSuccess(pc.method, t - pc.startedAt)>>
                       ELSE <<RequestError(pc.method, t - pc.startedAt)>>,
                       {<<id, Answer(ok, IF ok THEN "OK" ELSE "ERROR")>>})

(* ---------------------- the client's environment ----------------------- *)

NoRequest == [method |-> "-", got |-> <<>>, answer |-> <<>>]

\* the callers of the calls in answers get their answer
Answered(cs, answers) ==
    [id \in CallIds |->
        LET hit == {a \in answers : a[1] = id}
        IN  IF hit = {} THEN cs[id]
            ELSE [cs[id] EXCEPT
                    !.answer = Append(@, (CHOOSE a \in hit : TRUE)[2])]]

\* time passes
WallTick ==
    /\ wall < MaxWall
    /\ wall' = wall + 1
    /\ UNCHANGED <<client, flight, calls, log, nextCall, reconnects, transport,
                   cbVars, rlVars, nrVars>>

Start ==
    /\ client.state = "DISCONNECTED"
    /\ client' = start(client)
    /\ transport' = TRUE
    /\ UNCHANGED <<flight, calls, log, wall, nextCall, reconnects,
                   cbVars, rlVars, nrVars>>

TransportOpen ==
    /\ client.state = "CONNECTING"
    /\ client' = onOpen(client)
    /\ UNCHANGED <<flight, calls, log, wall, nextCall, reconnects, transport,
                   cbVars, rlVars, nrVars>>

HelloOk ==
    /\ client.state = "HANDSHAKING"
    /\ client' = onHelloOk(client)
    /\ reconnects' = <<>>
    /\ UNCHANGED <<flight, calls, log, wall, nextCall, transport,
                   cbVars, rlVars, nrVars>>

\* the transport fails or is closed, and its close event is delivered;
\* what was on it is lost
TransportLoss ==
    /\ transport
    /\ client.state # "STOPPED" => client.reconnectAttempt < MaxAttempts
    /\ LET r == onClose(client)
       IN  /\ client' = r.cl
           /\ reconnects' = reconnects \o r.emitted
    /\ transport' = FALSE
    /\ flight' = {}
    /\ UNCHANGED <<calls, log, wall, nextCall, cbVars, rlVars, nrVars>>

ReconnectTimer ==
    /\ client.timer
    /\ client' = onReconnectTimer(client)
    /\ transport' = TRUE
    /\ UNCHANGED <<flight, calls, log, wall, nextCall, reconnects,
                   cbVars, rlVars, nrVars>>

Stop ==
    /\ client.state # "STOPPED"
    /\ LET r == stop(client)
       IN  /\ client' = r.cl
           /\ calls' = Answered(calls, r.answers)
    /\ flight' = {}
    /\ UNCHANGED <<log, wall, nextCall, reconnects, transport,
                   cbVars, rlVars, nrVars>>

\* a caller sends a request over the connected client
Request(method) ==
    /\ client.state = "CONNECTED"
    /\ nextCall <= MaxClientCalls
    /\ LET r == request(client, nextCall, method, wall)
       IN  /\ client' = r.cl
           /\ log' = [log EXCEPT ![nextCall] = @ \o r.emitted]
    /\ calls' = [calls EXCEPT ![nextCall].method = method]
    /\ flight' = flight \cup {nextCall}
    /\ nextCall' = nextCall + 1
    /\ UNCHANGED <<wall, reconnects, transport, cbVars, rlVars, nrVars>>

\* the server's response to a request frame arrives
Response(id, ok) ==
    /\ id \in flight
    /\ LET r == handleResponse(client, id, ok, wall)
       IN  /\ client' = r.cl
           /\ log' = [log EXCEPT ![id] = @ \o r.emitted]
           /\ calls' = [Answered(calls, r.answers) EXCEPT
                           ![id].got = Append(@, ok)]
    /\ flight' = flight \ {id}
    /\ UNCHANGED <<wall, nextCall, reconnects, transport,
                   cbVars, rlVars, nrVars>>

RCNext ==
    \/ WallTick
    \/ Start
    \/ TransportOpen
    \/ HelloOk
    \/ TransportLoss
    \/ ReconnectTimer
    \/ Stop
    \/ \E method \in Methods : Request(method)
    \/ \E id \in CallIds, ok \in BOOLEAN : Response(id, ok)

(* ========================= specifications ============================== *)

\* the breaker alone: the limiter stays as constructed
CBInit ==
    /\ cb = NewBreaker
    /\ config \in [failureThreshold : 1..MaxThreshold,
                   resetTimeoutMs : 1..MaxResetTimeout,
                   halfOpenMaxAttempts : 1..MaxHalfOpen]
    /\ now = 0
    /\ inflight = [k \in Kinds |-> 0]
    /\ lastTo = CLOSED
    /\ done = [ok |-> 0, err |-> 0]
    /\ streak = 0
    /\ ev = NoEvent
    /\ healed = FALSE
    /\ buckets = EmptyMap
    /\ limits = [maxRequests |-> 1, windowMs |-> 1]
    /\ clock = 0
    /\ granted = [k \in Keys |-> <<>>]
    /\ rl = NoCall
    /\ registry = NewRegistry
    /\ wire = {}
    /\ settled = [id \in Ids |-> <<>>]
    /\ nextId = 1
    /\ nr = NoHandler
    /\ client = NewClient
    /\ flight = {}
    /\ calls = [id \in CallIds |-> NoRequest]
    /\ log = [id \in CallIds |-> <<>>]
    /\ wall = 0
    /\ nextCall = 1
    /\ reconnects = <<>>
    /\ transport = FALSE

SpecCB == CBInit /\ [][CBNext]_vars

\* the breaker over unbounded time, with a clock that keeps advancing,
\* callers that keep calling, guarded operations that complete, and a
\* target that recovers at some point
CBLiveInit ==
    /\ cb = NewBreaker
    /\ config \in [failureThreshold : 1..MaxThreshold,
                   resetTimeoutMs : 1..MaxResetTimeout,
                   halfOpenMaxAttempts : 1..MaxHalfOpen]
    /\ now = MaxTime
    /\ inflight = [k \in Kinds |-> 0]
    /\ lastTo = CLOSED
    /\ done = [ok |-> 0, err |-> 0]
    /\ streak = 0
    /\ ev = NoEvent
    /\ healed = FALSE
    /\ buckets = EmptyMap
    /\ limits = [maxRequests |-> 1, windowMs |-> 1]
    /\ clock = 0
    /\ granted = [k \in Keys |-> <<>>]
    /\ rl = NoCall
    /\ registry = NewRegistry
    /\ wire = {}
    /\ settled = [id \in Ids |-> <<>>]
    /\ nextId = 1
    /\ nr = NoHandler
    /\ client = NewClient
    /\ flight = {}
    /\ calls = [id \in CallIds |-> NoRequest]
    /\ log = [id \in CallIds |-> <<>>]
    /\ wall = 0
    /\ nextCall = 1
    /\ reconnects = <<>>
    /\ transport = FALSE

SpecCBLive ==
    /\ CBLiveInit
    /\ [][CBLiveNext]_vars
    /\ WF_vars(LiveTick)
    /\ WF_vars(LiveExecute)
    /\ \A k \in Kinds : WF_vars(LiveSuccess(k))
    /\ WF_vars(Heal)

\* the limiter alone: the breaker stays as constructed
RLInit ==
    /\ buckets = EmptyMap
    /\ limits \in [maxRequests : (-1)..MaxRequests, windowMs : 1..MaxWindow]
    /\ clock = 0
    /\ granted = [k \in Keys |-> <<>>]
    /\ rl = NoCall
    /\ cb = NewBreaker
    /\ config = [failureThreshold |-> 1, resetTimeoutMs |-> 1,
                 halfOpenMaxAttempts |-> 1]
    /\ now = 0
    /\ inflight = [k \in Kinds |-> 0]
    /\ lastTo = CLOSED
    /\ done = [ok |-> 0, err |-> 0]
    /\ streak = 0
    /\ ev = NoEvent
    /\ healed = FALSE
    /\ registry = NewRegistry
    /\ wire = {}
    /\ settled = [id \in Ids |-> <<>>]
    /\ nextId = 1
    /\ nr = NoHandler
    /\ client = NewClient
    /\ flight = {}
    /\ calls = [id \in CallIds |-> NoRequest]
    /\ log = [id \in CallIds |-> <<>>]
    /\ wall = 0
    /\ nextCall = 1
    /\ reconnects = <<>>
    /\ transport = FALSE

SpecRL == RLInit /\ [][RLNext]_vars

\* the registry alone: breaker and limiter stay as constructed
NRInit ==
    /\ registry = NewRegistry
    /\ wire = {}
    /\ settled = [id \in Ids |-> <<>>]
    /\ nextId = 1
    /\ nr = NoHandler
    /\ cb = NewBreaker
    /\ config = [failureThreshold |-> 1, resetTimeoutMs |-> 1,
                 halfOpenMaxAttempts |-> 1]
    /\ now = 0
    /\ inflight = [k \in Kinds |-> 0]
    /\ lastTo = CLOSED
    /\ done = [ok |-> 0, err |-> 0]
    /\ streak = 0
    /\ ev = NoEvent
    /\ healed = FALSE
    /\ buckets = EmptyMap
    /\ limits = [maxRequests |-> 1, windowMs |-> 1]
    /\ clock = 0
    /\ granted = [k \in Keys |-> <<>>]
    /\ rl = NoCall
    /\ client = NewClient
    /\ flight = {}
    /\ calls = [id \in CallIds |-> NoRequest]
    /\ log = [id \in CallIds |-> <<>>]
    /\ wall = 0
    /\ nextCall = 1
    /\ reconnects = <<>>
    /\ transport = FALSE

SpecNR == NRInit /\ [][NRNext]_vars

\* the registry with its timers firing: an armed timer is a scheduled
\* timeout, which runs unless it is cancelled first
SpecNRFair == SpecNR /\ \A id \in Ids : WF_vars(Timeout(id))

\* the client alone: breaker, limiter and registry stay as constructed
RCInit ==
    /\ client = NewClient
    /\ flight = {}
    /\ calls = [id \in CallIds |-> NoRequest]
    /\ log = [id \in CallIds |-> <<>>]
    /\ wall = 0
    /\ nextCall = 1
    /\ reconnects = <<>>
    /\ transport = FALSE
    /\ cb = NewBreaker
    /\ config = [failureThreshold |-> 1, resetTimeoutMs |-> 1,
                 halfOpenMaxAttempts |-> 1]
    /\ now = 0
    /\ inflight = [k \in Kinds |-> 0]
    /\ lastTo = CLOSED
    /\ done = [ok |-> 0, err |-> 0]
    /\ streak = 0
    /\ ev = NoEvent
    /\ healed = FALSE
    /\ buckets = EmptyMap
    /\ limits = [maxRequests |-> 1, windowMs |-> 1]
    /\ clock = 0
    /\ granted = [k \in Keys |-> <<>>]
    /\ rl = NoCall
    /\ registry = NewRegistry
    /\ wire = {}
    /\ settled = [id \in Ids |-> <<>>]
    /\ nextId = 1
    /\ nr = NoHandler

SpecRC == RCInit /\ [][RCNext]_vars

(* ============================== claims ================================= *)

\* every field of the breaker that getStats() and the admission logic read
Fields(b) ==
    <<b.state, b.failures, b.successes, b.consecutiveFailures,
      b.lastFailureMs, b.openedAtMs, b.halfOpenInflight>>

\* C1: while CLOSED, a failure opens the breaker exactly when it is the
\* failureThreshold-th failure in a row (and the breaker is never CLOSED with
\* that many failures in a row behind it); a success while CLOSED zeroes
\* consecutiveFailures and leaves the breaker CLOSED.
C1_TripsAtNthFailure ==
    /\ (ev.op = "complete" /\ ev.from = CLOSED /\ ~ev.ok)
         => /\ cb.state \in {CLOSED, OPEN}
            /\ cb.state = OPEN <=> streak = config.failureThreshold
    /\ (ev.op = "complete" /\ ev.from = CLOSED /\ ev.ok)
         => cb.state = CLOSED /\ cb.consecutiveFailures = 0
    /\ cb.state = CLOSED => streak < config.failureThreshold

\* the second failure in a row has just tripped a breaker of threshold 2
C1_Witness ==
    /\ ev.op = "complete" /\ ev.from = CLOSED /\ ~ev.ok
    /\ config.failureThreshold = 2 /\ streak = 2 /\ cb.state = OPEN
    /\ cb.successes > 0

\* C2: an execute call made while the breaker is OPEN and less than
\* resetTimeoutMs has passed since it opened is rejected with
\* 0 < retryAfterMs <= resetTimeoutMs, does not invoke the guarded function,
\* tells the observer nothing and changes no field of the breaker.
C2_OpenRejects ==
    [][(/\ cb.state = OPEN
        /\ now - cb.openedAtMs < config.resetTimeoutMs
        /\ ev'.op = "execute")
       => /\ ~ev'.invoked
          /\ ev'.errState = OPEN
          /\ 0 < ev'.retryAfterMs
          /\ ev'.retryAfterMs <= config.resetTimeoutMs
          /\ Fields(cb') = Fields(cb)
          /\ cb'.notified = <<>>
          /\ inflight' = inflight]_vars

\* a call has just been rejected one millisecond after the breaker opened
C2_Witness ==
    /\ ev.op = "execute" /\ ev.from = OPEN /\ ~ev.invoked
    /\ cb.state = OPEN /\ now - cb.openedAtMs = 1
    /\ ev.retryAfterMs = 1

\* C3: an execute call made while the breaker is OPEN and at least
\* resetTimeoutMs has passed since it opened moves the breaker to HALF_OPEN
\* and invokes the guarded function.
C3_TimeoutAdmitsProbe ==
    [][(/\ cb.state = OPEN
        /\ now - cb.openedAtMs >= config.resetTimeoutMs
        /\ ev'.op = "execute")
       => /\ cb'.state = HALF_OPEN
          /\ ev'.invoked
          /\ ev'.kind = "probe"]_vars

\* a probe was admitted from OPEN while a probe of an earlier HALF_OPEN phase
\* was still in flight
C3_Witness ==
    /\ ev.op = "execute" /\ ev.from = OPEN /\ ev.invoked
    /\ cb.state = HALF_OPEN
    /\ inflight["stale"] > 0

\* C4: whenever a call that was admitted as a probe completes, the breaker is
\* CLOSED with consecutiveFailures = 0 if it succeeded, and OPEN with the open
\* timestamp at the time of the failure if it failed.
C4_ProbeOutcomeDecides ==
    (ev.op = "complete" /\ ev.kind \in {"probe", "stale"})
      => IF ev.ok
         THEN cb.state = CLOSED /\ cb.consecutiveFailures = 0
         ELSE cb.state = OPEN /\ cb.openedAtMs = now

\* C5: the guarded operations in flight that were admitted while the breaker
\* was HALF_OPEN never number more than halfOpenMaxAttempts.
C5_ProbesInFlightBounded ==
    inflight["probe"] + inflight["stale"] <= config.halfOpenMaxAttempts

C7_EveryTransitionReported ==
    [][/\ cb'.state # cb.state
          => cb'.notified = << <<cb.state, cb'.state>> >>
       /\ cb'.notified # <<>>
          => cb'.notified[1][1] = lastTo]_vars

GrantedIn(key, t) ==
    Cardinality({i \in DOMAIN granted[key] :
                   /\ granted[key][i] > t - limits.windowMs
                   /\ granted[key][i] <= t})

\* C9: for every key and every instant t, the tryAcquire calls on the key that
\* returned true at times in (t - windowMs, t] since the key's last reset
\* number at most maxRequests (none when maxRequests is not positive).
C9_WindowNeverOverfull ==
    \A key \in Keys : \A t \in 0..clock :
        GrantedIn(key, t) <= Max(0, limits.maxRequests)

\* a call is turned away from a full window although the key has been granted
\* more than maxRequests calls over time
C9_Witness ==
    /\ rl.op = "tryAcquire" /\ ~rl.granted
    /\ limits.maxRequests = 2
    /\ GrantedIn(rl.key, clock) = 2
    /\ Len(granted[rl.key]) > 2

\* the key's timestamps that pruning at time t leaves
Kept(m, key, t) ==
    IF key \in DOMAIN m
    THEN SelectSeq(m[key], LAMBDA x : x > t - limits.windowMs)
    ELSE <<>>

\* C10: with maxRequests > 0, tryAcquire(key) returns true and appends now to
\* the key's pruned bucket exactly when the timestamps left after pruning
\* number less than maxRequests; otherwise it returns false and the bucket
\* holds the pruned timestamps and no new one.
C10_AcquireIffBelowLimit ==
    [][(limits.maxRequests > 0 /\ rl'.op = "tryAcquire")
       => LET key == rl'.key
              kept == Kept(buckets, key, clock)
          IN /\ rl'.granted <=> Len(kept) < limits.maxRequests
             /\ buckets'[key] = IF rl'.granted THEN Append(kept, clock)
                                ELSE kept]_vars

\* a call is granted the last slot after pruning made room for it
C10_Witness ==
    /\ rl.op = "tryAcquire" /\ rl.granted
    /\ limits.maxRequests = 2
    /\ Len(buckets[rl.key]) = 2
    /\ buckets[rl.key][1] < clock
    /\ Len(granted[rl.key]) > 2

\* C11: with maxRequests > 0 no bucket ever holds more than maxRequests
\* timestamps, and right after tryAcquire or getRemaining on a key at time now
\* every timestamp kept for the key lies in [now - windowMs, now].
C11_BucketBoundedAndFresh ==
    limits.maxRequests > 0 =>
      /\ \A key \in DOMAIN buckets : Len(buckets[key]) <= limits.maxRequests
      /\ (rl.op \in {"tryAcquire", "getRemaining"} /\ rl.key \in DOMAIN buckets)
           => \A i \in DOMAIN buckets[rl.key] :
                /\ buckets[rl.key][i] >= clock - limits.windowMs
                /\ buckets[rl.key][i] <= clock

\* getRemaining has just pruned a bucket that is full again after earlier
\* grants left the window
C11_Witness ==
    /\ rl.op = "getRemaining" /\ rl.key \in DOMAIN buckets
    /\ limits.maxRequests = 2
    /\ Len(buckets[rl.key]) = 2
    /\ Len(granted[rl.key]) > 2
    /\ rl.remaining = 0

\* C12: with maxRequests <= 0 every tryAcquire returns false and every
\* getRemaining returns 0.
C12_NonPositiveLimitRejects ==
    limits.maxRequests <= 0 =>
      /\ rl.op = "tryAcquire" => ~rl.granted
      /\ rl.op = "getRemaining" => rl.remaining = 0
      /\ \A key \in Keys : granted[key] = <<>>

\* getRemaining answers 0 for a negative limit after the clock has moved
C12_Witness ==
    /\ limits.maxRequests < 0
    /\ rl.op = "getRemaining" /\ rl.remaining = 0
    /\ clock > 0

\* the map's entry for key, or nothing
Entry(m, key) == IF key \in DOMAIN m THEN <<m[key]>> ELSE <<>>

\* C13: tryAcquire, getRemaining and reset on one key leave the bucket of
\* every other key as it was, and what they return and leave for the key is
\* what they return and leave on a map that holds the key's bucket alone.
C13_KeysIndependent ==
    [][rl'.op \in {"tryAcquire", "getRemaining", "reset"}
       => LET key == rl'.key
              alone == [k \in DOMAIN buckets \cap {key} |-> buckets[k]]
          IN /\ \A other \in Keys \ {key} :
                    Entry(buckets', other) = Entry(buckets, other)
             /\ rl'.op = "tryAcquire"
                  => LET r == tryAcquire(alone, key, clock, limits) IN
                     /\ rl'.granted = r.result
                     /\ Entry(buckets', key) = Entry(r.buckets, key)
             /\ rl'.op = "getRemaining"
                  => LET r == getRemaining(alone, key, clock, limits) IN
                     /\ rl'.remaining = r.result
                     /\ Entry(buckets', key) = Entry(r.buckets, key)]_vars

\* one key has just been reset while the other key's bucket is full
C13_Witness ==
    /\ rl.op = "reset" /\ rl.dropped > 0
    /\ \E other \in Keys \ {rl.key} :
          /\ other \in DOMAIN buckets
          /\ Len(buckets[other]) = limits.maxRequests

\* the time of the key's latest grant since its last reset, if any
LastGrant(key) == granted[key][Len(granted[key])]

\* C14: with maxRequests > 0, getRemaining(key) returns
\* max(0, maxRequests - c) for the c timestamps that pruning leaves
\* (maxRequests for a key without a bucket), it returns maxRequests once
\* windowMs has passed since the key's last grant, and a granted tryAcquire
\* lowers what getRemaining returns at that clock time by exactly one.
C14_RemainingCountsSlots ==
    [][limits.maxRequests > 0 =>
        /\ rl'.op = "getRemaining"
             => LET key == rl'.key IN
                /\ rl'.remaining =
                     Max(0, limits.maxRequests - Len(Kept(buckets, key, clock)))
                /\ key \notin DOMAIN buckets
                     => rl'.remaining = limits.maxRequests
                /\ (\/ granted[key] = <<>>
                    \/ clock - LastGrant(key) >= limits.windowMs)
                     => rl'.remaining = limits.maxRequests
        /\ (rl'.op = "tryAcquire" /\ rl'.granted)
             => getRemaining(buckets', rl'.key, clock, limits).result
                  = getRemaining(buckets, rl'.key, clock, limits).result - 1
       ]_vars

\* getRemaining reports every slot free again for a key that was granted calls
\* a window ago
C14_Witness ==
    /\ rl.op = "getRemaining" /\ rl.key \in DOMAIN buckets
    /\ limits.maxRequests = 2
    /\ rl.remaining = 2
    /\ Len(granted[rl.key]) = 2

\* the non-decreasing ways to place n calls in the window that starts at t
CallTimes(n, t) ==
    {ts \in [1..n -> t..(t + limits.windowMs - 1)] :
        \A i \in 1..(n - 1) : ts[i] <= ts[i + 1]}

\* whether tryAcquire(key) returns true at each of the times ts, in order
RECURSIVE AllGranted(_, _, _, _)
AllGranted(m, key, ts, i) ==
    IF i > Len(ts) THEN TRUE
    ELSE LET r == tryAcquire(m, key, ts[i], limits) IN
         r.result /\ AllGranted(r.buckets, key, ts, i + 1)

\* key answers as a key that was never seen: with maxRequests > 0 every slot
\* is free and maxRequests calls placed within one window are all granted
Fresh(m, key, t) ==
    /\ key \notin DOMAIN m
    /\ limits.maxRequests > 0
         => /\ getRemaining(m, key, t, limits).result = limits.maxRequests
            /\ \A ts \in CallTimes(limits.maxRequests, t) :
                  AllGranted(m, key, ts, 1)

\* C15: after reset(key) the key answers as a never-seen key; reset of a key
\* without a bucket changes nothing; after resetAll() every key answers as a
\* never-seen key.
C15_ResetForgetsKey ==
    [][/\ rl'.op = "reset"
          => /\ Fresh(buckets', rl'.key, clock)
             /\ rl'.key \notin DOMAIN buckets => buckets' = buckets
       /\ rl'.op = "resetAll"
          => \A key \in Keys : Fresh(buckets', key, clock)]_vars

\* a key whose window was full has just been reset
C15_Witness ==
    /\ rl.op = "reset"
    /\ limits.maxRequests = 2
    /\ rl.dropped = 2
    /\ rl.key \notin DOMAIN buckets

(* ---------------------- claims about the registry ---------------------- *)

\* the connection an invoke on this node is routed to, if it is registered
Routed(reg, c) == c \in reg.connections

\* C16: the pending set of every connection never holds more than the
\* bound (1000 in the program, PendingLimit here), under every interleaving
\* of invoke, reply, timeout and unregister: an invoke that finds the set of
\* its connection at the bound resolves at once with QUEUE_FULL, sends no
\* frame and creates no PendingCall (the registry is left as it was).
C16_PendingSetBounded ==
    [][ /\ \A c \in Conns : Cardinality(registry'.pending[c]) <= PendingLimit
        /\ \A c \in Conns :
              ( /\ nextId' = nextId + 1
                /\ nr'.conn = c
                /\ Routed(registry, c)
                /\ Cardinality(registry.pending[c]) = PendingLimit )
              => /\ settled'[nextId] = <<ResolvedWith("QUEUE_FULL")>>
                 /\ wire' = wire
                 /\ registry' = registry ]_vars

C16_Witness ==
    /\ nr.op = "invoke"
    /\ settled[nextId - 1] = <<ResolvedWith("QUEUE_FULL")>>
    /\ Cardinality(registry.pending[nr.conn]) = PendingLimit

\* C17: an admitted invoke is settled at most once, whatever the order of
\* its reply, its timeout and the unregister of its connection: the step
\* that removes the PendingCall settles it, a settled result never changes,
\* and a reply that finds the entry absent changes neither the results nor
\* the registry.
C17_SettledAtMostOnce ==
    [][ \A id \in Ids :
          /\ Len(settled'[id]) <= 1
          /\ settled[id] # <<>> => settled'[id] = settled[id]
          /\ (Owners(registry, id) # {} /\ Owners(registry', id) = {})
                => settled[id] = <<>> /\ Len(settled'[id]) = 1
          /\ Owners(registry', id) # {} => settled'[id] = <<>>
          /\ (id \in wire /\ id \notin wire' /\ Owners(registry, id) = {})
                => registry' = registry /\ settled' = settled ]_vars

\* a reply arrived after its call had timed out, and changed nothing
C17_Witness ==
    /\ nr.op = "reply"
    /\ \E id \in Ids :
          /\ settled[id] = <<ResolvedWith("TIMEOUT")>>
          /\ id \notin wire

\* C18: unregister(connectionId) resolves every invoke still pending on the
\* connection with the result value {ok: false, code NODE_DISCONNECTED} (not
\* a rejection), cancels their timers and leaves the connection's pending
\* set empty; unregistering an id that is not registered changes nothing.
C18_UnregisterResolvesDisconnected ==
    [][ \A c \in Conns :
          /\ (c \in registry.connections /\ c \notin registry'.connections)
                => /\ \A id \in registry.pending[c] :
                        /\ settled'[id] = <<ResolvedWith("NODE_DISCONNECTED")>>
                        /\ id \notin registry'.timers
                   /\ registry'.pending[c] = {}
          /\ (nr'.op = "unregister" /\ nr'.conn = c
                /\ c \notin registry.connections)
                => registry' = registry /\ settled' = settled ]_vars

\* C19: with timers that fire, every admitted invoke is eventually settled
\* (by its reply, by TIMEOUT or by the unregister of its connection): no
\* invoke stays pending forever.
C19_EveryInvokeSettles ==
    \A id \in Ids :
        (Owners(registry, id) # {})
            ~> (Owners(registry, id) = {} /\ Len(settled[id]) = 1)

\* a call nobody answered was settled by its timer
C19_Witness ==
    /\ nr.op = "timeout"
    /\ \E id \in Ids :
          /\ id \in wire
          /\ settled[id] = <<ResolvedWith("TIMEOUT")>>
          /\ Owners(registry, id) = {}

(* ----------------------- claims about the client ----------------------- *)

\* C20: for every request that received a response, the client emitted
\* exactly one request-start with the request's method before sending the
\* frame, and then exactly one outcome event: request-success if the
\* response's ok flag is true, request-error otherwise, never both; the
\* reported duration is not negative.
C20_OneStartOneOutcome ==
    \A id \in CallIds :
        calls[id].got # <<>> =>
            /\ Len(log[id]) = 3
            /\ log[id][1] = RequestStart(calls[id].method)
            /\ log[id][2] = FrameSent(calls[id].method)
            /\ log[id][3].type =
                  (IF calls[id].got[1] THEN "request-success"
                                       ELSE "request-error")
            /\ log[id][3].method = calls[id].method
            /\ log[id][3].durationMs >= 0

\* a request that took time was answered with ok false, another with ok true
C20_Witness ==
    \E i, j \in CallIds :
        /\ calls[i].got = <<FALSE>>
        /\ log[i][3].durationMs > 0
        /\ calls[j].got = <<TRUE>>

\* C21: the reconnect events since the last accepted handshake carry the
\* attempt numbers 1, 2, 3, ... in order, each with a positive delay, and
\* the counter equals the number of those events; an accepted handshake
\* leaves the counter at 0, so the numbering starts again at 1.
C21_AttemptsNumberedFromOne ==
    /\ \A i \in 1..Len(reconnects) :
          /\ reconnects[i].attempt = i
          /\ reconnects[i].delayMs > 0
    /\ client.state # "STOPPED" => client.reconnectAttempt = Len(reconnects)
    /\ client.state = "CONNECTED" => client.reconnectAttempt = 0

\* a request was made, so a handshake had been accepted; since the last
\* accepted handshake the transport was lost twice
C21_Witness ==
    /\ nextCall > 1
    /\ Len(reconnects) = 2
    /\ reconnects[1].attempt = 1
    /\ reconnects[2].attempt = 2

\* C22: stop() is terminal. Once STOPPED the client stays STOPPED, its
\* reconnect timer is not armed and never fires, no reconnect event is
\* emitted, no connection is attempted and its counter is left alone even
\* when the close event of the transport it closed arrives; the stop() step
\* answers every call pending at that time with CLIENT_STOPPED.
C22_StopIsTerminal ==
    [][ /\ client.state = "STOPPED" =>
              /\ client' = client
              /\ ~client.timer
              /\ client.pending = {}
              /\ reconnects' = reconnects
              /\ ~(~transport /\ transport')
        /\ (client.state # "STOPPED" /\ client'.state = "STOPPED") =>
              \A pc \in client.pending :
                  calls'[pc.id].answer = <<Answer(FALSE, "CLIENT_STOPPED")>>
      ]_vars

\* stop() found a call pending, with a reconnect behind it, and the close
\* event of the transport it closed has been delivered
C22_Witness ==
    /\ client.state = "STOPPED"
    /\ ~transport
    /\ Len(reconnects) >= 1
    /\ \E id \in CallIds :
          calls[id].answer = <<Answer(FALSE, "CLIENT_STOPPED")>>

(* ------------------ further claims about the breaker ------------------- *)

\* C23: every circuit-open failure carries the breaker's state at that
\* moment and the time left until retry: a call rejected by execute() fails
\* with a CircuitOpenError whose state is the breaker's state and whose
\* retryAfterMs is resetTimeoutMs minus the time elapsed since the open
\* timestamp, also when it is rejected because the HALF_OPEN probe limit is
\* reached.
C23_RejectionCarriesStateAndRemaining ==
    (ev.op = "execute" /\ ~ev.invoked)
      => /\ ev.errState = cb.state
         /\ ev.retryAfterMs = config.resetTimeoutMs - Elapsed(cb, now)

\* C24: the in-flight probe counter never exceeds halfOpenMaxAttempts, under
\* every interleaving of execute calls, completions and reset().
C24_ProbeCounterBounded ==
    cb.halfOpenInflight <= config.halfOpenMaxAttempts

\* a call was turned away at the probe limit with two probes counted
C24_Witness ==
    /\ ev.op = "execute" /\ ~ev.invoked /\ ev.from = HALF_OPEN
    /\ cb.state = HALF_OPEN
    /\ config.halfOpenMaxAttempts = 2
    /\ cb.halfOpenInflight = config.halfOpenMaxAttempts

\* C26: whenever the breaker is CLOSED, consecutiveFailures is below
\* failureThreshold, also after late completions of calls admitted in an
\* earlier state and after reset().
C26_ClosedBelowThreshold ==
    cb.state = CLOSED => cb.consecutiveFailures < config.failureThreshold

\* a probe of a past HALF_OPEN phase failed late while the breaker was
\* CLOSED, and was counted without tripping it
C26_Witness ==
    /\ ev.op = "complete" /\ ~ev.ok /\ ev.kind = "stale" /\ ev.from = CLOSED
    /\ cb.state = CLOSED
    /\ cb.consecutiveFailures = config.failureThreshold - 1

\* C27: the breaker leaves HALF_OPEN only when a probe of that HALF_OPEN
\* phase completes or reset() is called; the completion of a call admitted
\* earlier (while CLOSED, with the breaker no longer CLOSED, or as a probe of
\* a past HALF_OPEN phase) leaves the state, the in-flight probe counter and
\* the open timestamp as they were.
C27_OnlyProbesLeaveHalfOpen ==
    [][ /\ (cb.state = HALF_OPEN /\ cb'.state # HALF_OPEN)
              => \/ ev'.op = "reset"
                 \/ ev'.op = "complete" /\ ev'.kind = "probe"
        /\ ( /\ ev'.op = "complete"
             /\ done'.ok + done'.err = done.ok + done.err + 1
             /\ \/ ev'.kind = "stale"
                \/ ev'.kind = "closed" /\ cb.state # CLOSED )
              => /\ cb'.state = cb.state
                 /\ cb'.halfOpenInflight = cb.halfOpenInflight
                 /\ cb'.openedAtMs = cb.openedAtMs ]_vars

\* C28: the in-flight probe counter is exact: it is never negative, and
\* whenever no guarded operation is in flight it is 0.
C28_ProbeCounterExact ==
    /\ cb.halfOpenInflight >= 0
    /\ InflightTotal = 0 => cb.halfOpenInflight = 0

(* ------------------ further claims about the limiter ------------------- *)

\* the times since the key's last reset at which it was granted a slot and
\* that are younger than windowMs at time t
Younger(key, t) ==
    SelectSeq(granted[key], LAMBDA x : x > t - limits.windowMs)

\* the same, counting a grant exactly windowMs old as well
NotOlder(key, t) ==
    SelectSeq(granted[key], LAMBDA x : x >= t - limits.windowMs)

\* the last call pruned the bucket of its key
Pruned ==
    /\ rl.op \in {"tryAcquire", "getRemaining"}
    /\ limits.maxRequests > 0
    /\ Has(buckets, rl.key)

\* C25 as stated: pruning at time now removes exactly the timestamps older
\* than now - windowMs; one equal to now - windowMs is retained and counts,
\* so a key granted maxRequests slots at t0 is still rejected at
\* t0 + windowMs.
C25_PruneKeepsBoundary ==
    /\ Pruned => buckets[rl.key] = NotOlder(rl.key, clock)
    /\ (Pruned /\ rl.op = "tryAcquire" /\ rl.granted)
          => Len(NotOlder(rl.key, clock)) <= limits.maxRequests

\* C25, amended: pruning at time now removes exactly the timestamps that are
\* at least windowMs old (<= now - windowMs); one equal to now - windowMs is
\* removed and no longer counts, so tryAcquire rejects only when maxRequests
\* grants are younger than windowMs, and a key granted maxRequests slots at
\* t0 is granted a slot again at t0 + windowMs.
C25_PruneDropsBoundary ==
    /\ Pruned => buckets[rl.key] = Younger(rl.key, clock)
    /\ (Pruned /\ rl.op = "tryAcquire" /\ ~rl.granted)
          => Len(Younger(rl.key, clock)) >= limits.maxRequests

\* a key that was granted both of its slots at t0 is granted one again at
\* t0 + windowMs, and the two old timestamps are gone
C25_Witness ==
    /\ rl.op = "tryAcquire" /\ rl.granted
    /\ limits.maxRequests = 2
    /\ clock = limits.windowMs
    /\ granted[rl.key] = <<0, 0, clock>>
    /\ buckets[rl.key] = <<clock>>

\* every bucket as pruning at time t leaves it
Settle(m, t) ==
    [k \in DOMAIN m |-> prune(m[k], t, limits.windowMs)]

\* C30: tryAcquire and getRemaining agree. In every reachable state, for
\* every key, tryAcquire(key) returns true exactly when getRemaining(key) at
\* the same time returns more than 0; and a getRemaining call on any key,
\* made before a tryAcquire at the same or a later time, changes neither
\* what the tryAcquire returns nor the buckets it leaves, up to timestamps
\* that are expired by then.
C30_AcquireAgreesWithRemaining ==
    \A key \in Keys :
        /\ tryAcquire(buckets, key, clock, limits).result
              <=> getRemaining(buckets, key, clock, limits).result > 0
        /\ \A k2 \in Keys : \A t \in clock..MaxClock :
              LET g == getRemaining(buckets, k2, clock, limits).buckets
                  a == tryAcquire(buckets, key, t, limits)
                  b == tryAcquire(g, key, t, limits)
              IN  /\ b.result = a.result
                  /\ Settle(b.buckets, t) = Settle(a.buckets, t)

\* getRemaining has just pruned a bucket and reported one free slot, which
\* tryAcquire would grant
C30_Witness ==
    /\ rl.op = "getRemaining"
    /\ rl.remaining = 1
    /\ Has(buckets, rl.key)
    /\ Len(granted[rl.key]) > Len(buckets[rl.key])
    /\ tryAcquire(buckets, rl.key, clock, limits).result

(* --------------------- the breaker always recovers --------------------- *)

\* C29: if the clock keeps advancing, execute calls keep arriving, every
\* guarded operation completes and from some point on every guarded
\* operation succeeds, the breaker reaches CLOSED: it does not stay OPEN or
\* HALF_OPEN for ever.
C29_BreakerRecovers ==
    healed ~> cb.state = CLOSED

\* the target has recovered while the breaker was OPEN with a probe of a
\* past phase still counted, and a probe then closed the breaker
C29_Witness ==
    /\ healed
    /\ cb.state = CLOSED
    /\ inflight["stale"] > 0
    /\ cb.openedAtMs # Null
    /\ cb.openedAtMs < now


====
